---- MODULE Spec2Model ----
(***************************************************************************)
(* A model of @bison.digital/pusher-cloudflare: the Pusher REST client     *)
(* (src/src/index.ts, class Pusher) and the stand-alone channel            *)
(* authorizer (src/unnamed/part_001, class PusherAuth).                    *)
(*                                                                         *)
(* Every public method is an async function.  A call runs synchronously up *)
(* to its first await, is then suspended on a runtime primitive            *)
(* (crypto.subtle.digest / importKey / sign, fetch, Response.text / json), *)
(* and resumes when the runtime settles that primitive.  Each call slot    *)
(* holds the locals of one call and the name of the primitive it awaits;   *)
(* calls of different slots interleave freely at their awaits.             *)
(*                                                                         *)
(* Strings are TLA+ strings and \o is JavaScript's string concatenation.   *)
(* The strings of the model contain no character that JSON.stringify       *)
(* escapes; form-urlencoding is applied by UrlEncode.                      *)
(***************************************************************************)
EXTENDS Integers, Sequences, FiniteSets, TLC

\* Number of call slots (calls that may be in flight on the clients at once).
NumCalls == 1
\* Largest value of the clock, Math.floor(Date.now() / 1000).
MaxClock == 2

\* Number of call slots when calls run concurrently on the same clients.
NumConcurrent == 2

CallIds == 1..NumCalls

(***************************************************************************)
(* JavaScript values                                                       *)
(***************************************************************************)
Undefined == [t |-> "undefined"]
Null == [t |-> "null"]
NaN == [t |-> "NaN"]
Str(s) == [t |-> "string", s |-> s]
Num(n) == [t |-> "number", n |-> n]
Bool(b) == [t |-> "boolean", b |-> b]
Arr(items) == [t |-> "array", items |-> items]
\* An object is its own properties in insertion order: <<name, value>> pairs.
Obj(fields) == [t |-> "object", fields |-> fields]

\* !v : ToBoolean(v) is false.
Falsy(v) ==
    \/ v.t \in {"undefined", "null", "NaN"}
    \/ v.t = "string" /\ v.s = ""
    \/ v.t = "number" /\ v.n = 0
    \/ v.t = "boolean" /\ ~v.b

HasProp(o, name) == \E i \in 1..Len(o.fields) : o.fields[i][1] = name

\* o.name : the property's value, undefined when o has no such property.
Prop(o, name) ==
    IF HasProp(o, name)
    THEN LET i == CHOOSE j \in 1..Len(o.fields) : o.fields[j][1] = name
         IN  o.fields[i][2]
    ELSE Undefined

RECURSIVE Join(_, _)
\* Array.prototype.join on an array of strings.
Join(parts, sep) ==
    IF Len(parts) = 0 THEN ""
    ELSE IF Len(parts) = 1 THEN parts[1]
    ELSE parts[1] \o sep \o Join(Tail(parts), sep)

Quote(s) == "\"" \o s \o "\""

RECURSIVE JSONStringify(_)
\* JSON.stringify(v) for a value other than undefined: a property whose value
\* is undefined is left out, an undefined array element and NaN become null.
JSONStringify(v) ==
    CASE v.t = "string" -> Quote(v.s)
      [] v.t = "number" -> ToString(v.n)
      [] v.t = "NaN" -> "null"
      [] v.t = "null" -> "null"
      [] v.t = "boolean" -> (IF v.b THEN "true" ELSE "false")
      [] v.t = "array" ->
            "[" \o Join([i \in 1..Len(v.items) |->
                           IF v.items[i].t = "undefined" THEN "null"
                           ELSE JSONStringify(v.items[i])], ",") \o "]"
      [] v.t = "object" ->
            LET kept == SelectSeq(v.fields, LAMBDA f : f[2].t # "undefined")
            IN  "{" \o Join([i \in 1..Len(kept) |->
                               Quote(kept[i][1]) \o ":" \o JSONStringify(kept[i][2])],
                            ",") \o "}"

(***************************************************************************)
(* The runtime's primitives, as far as their results are functions of      *)
(* their arguments.                                                        *)
(***************************************************************************)
\* crypto.subtle.digest('MD5', encode(str)) when it resolves, hex-encoded:
\* a non-empty string determined by str.
MD5Hex(str) == "md5(" \o str \o ")"

\* crypto.subtle.sign('HMAC', key, encode(data)) for the key imported from
\* encode(secret), hex-encoded: HMAC-SHA256(secret, data).
HMACHex(secret, data) == "hmac(" \o secret \o "," \o data \o ")"

\* What a rejected primitive throws: an Error (DOMException, TypeError).
ErrorOf(message) == [t |-> "error", message |-> message]

DigestError == ErrorOf("Unrecognized name.")
ImportKeyError == ErrorOf("importKey failed")
SignError == ErrorOf("sign failed")
FetchError == ErrorOf("Network connection lost.")
BodyError == ErrorOf("body stream failed")

(***************************************************************************)
(* State                                                                   *)
(***************************************************************************)
VARIABLES
    pusher,             \* the Pusher instance, or NoInstance
    pusherAuth,         \* the PusherAuth instance, or NoInstance
    lastNewPusher,      \* the most recent `new Pusher`: arguments, outcome
    lastNewPusherAuth,  \* the most recent `new PusherAuth`: arguments, outcome
    now,                \* Math.floor(Date.now() / 1000)
    calls               \* per call slot: the call's locals and its suspension point

vars == <<pusher, pusherAuth, lastNewPusher, lastNewPusherAuth, now, calls>>

Pending == [kind |-> "pending"]
Return(value) == [kind |-> "return", value |-> value]
Throw(error) == [kind |-> "throw", error |-> error]

NoInstance == [cls |-> "none"]
NoNew == [outcome |-> Pending]

IdleCall ==
    [ op |-> "none", pc |-> "idle", args |-> <<>>, timestamp |-> 0,
      path |-> "", body |-> "", md5 |-> "", queryParts |-> <<>>,
      stringToSign |-> "", signature |-> "", channelData |-> "",
      query |-> <<>>, response |-> [t |-> "none"],
      trace |-> <<>>, settled |-> <<>>, warnings |-> <<>>,
      outcome |-> Pending ]

\* The call invokes a runtime primitive and is suspended on it.
Await(c, pc, invocation) ==
    [c EXCEPT !.pc = pc, !.trace = Append(@, invocation)]

\* The runtime settles the primitive the call is suspended on.
Settle(c, how) == [c EXCEPT !.settled = Append(@, how)]

\* The call's promise is fulfilled with value / rejected with error.
Finish(c, outcome) == [c EXCEPT !.pc = "done", !.outcome = outcome]

(***************************************************************************)
(* Constructors                                                            *)
(***************************************************************************)
\* PusherConfig objects passed to `new Pusher(config)`.
PusherConfigs ==
    { Obj(<<<<"appId", Str("app1")>>, <<"key", Str("k1")>>, <<"secret", Str("s3")>>>>),
      Obj(<<<<"appId", Str("app1")>>, <<"key", Str("k1")>>, <<"secret", Str("s3")>>,
            <<"cluster", Str("eu")>>, <<"useTLS", Bool(FALSE)>>>>),
      Obj(<<<<"key", Str("k1")>>, <<"secret", Str("s3")>>>>),
      Obj(<<<<"appId", Str("")>>, <<"key", Str("k1")>>, <<"secret", Str("s3")>>>>),
      Obj(<<<<"appId", Str("app1")>>, <<"key", Str("")>>, <<"secret", Str("s3")>>>>),
      Obj(<<<<"appId", Str("app1")>>, <<"key", Str("k1")>>>>),
      Obj(<<<<"appId", Str("app1")>>, <<"key", Str("k1")>>, <<"secret", Str("")>>>>) }

\* The config of the README's "Using Soketi" initialization.
SoketiConfigs ==
    { Obj(<<<<"appId", Str("app1")>>, <<"key", Str("k1")>>, <<"secret", Str("s3")>>,
            <<"host", Str("127.0.0.1")>>, <<"port", Num(6001)>>,
            <<"scheme", Str("http")>>, <<"useTLS", Bool(FALSE)>>>>) }

\* The config and the (key, secret) pair of a server that runs both clients
\* on the same credentials.
SharedConfig ==
    Obj(<<<<"appId", Str("app1")>>, <<"key", Str("k1")>>, <<"secret", Str("s3")>>>>)
SharedAuthArgs == <<Str("k1"), Str("s3")>>

\* (key, secret) argument pairs passed to `new PusherAuth(key, secret)`.
PusherAuthArgs ==
    { <<Str("k1"), Str("s3")>>, <<Str(""), Str("")>> }

\* new Pusher(config): the instance, or the error thrown.
PusherConstructor(config) ==
    IF Falsy(Prop(config, "appId")) \/ Falsy(Prop(config, "key"))
          \/ Falsy(Prop(config, "secret"))
    THEN Throw(ErrorOf("Pusher config requires appId, key, and secret"))
    ELSE LET cluster == IF Falsy(Prop(config, "cluster")) THEN "mt1"
                        ELSE Prop(config, "cluster").s
             useTLS == Prop(config, "useTLS") # Bool(FALSE)
             protocol == IF useTLS THEN "https" ELSE "http"
         IN  Return([ cls |-> "Pusher",
                      appId |-> Prop(config, "appId").s,
                      key |-> Prop(config, "key").s,
                      secret |-> Prop(config, "secret").s,
                      cluster |-> cluster,
                      useTLS |-> useTLS,
                      baseUrl |-> protocol \o "://api-" \o cluster \o ".pusher.com" ])

\* new PusherAuth(key, secret): parameter properties, no validation.
PusherAuthConstructor(key, secret) ==
    Return([cls |-> "PusherAuth", key |-> key.s, secret |-> secret.s])

NewPusher(config) ==
    /\ pusher = NoInstance
    /\ LET r == PusherConstructor(config)
       IN  /\ lastNewPusher' = [args |-> <<config>>, outcome |-> r]
           /\ pusher' = IF r.kind = "return" THEN r.value ELSE pusher
    /\ UNCHANGED <<pusherAuth, lastNewPusherAuth, now, calls>>

NewPusherAuth(key, secret) ==
    /\ pusherAuth = NoInstance
    /\ LET r == PusherAuthConstructor(key, secret)
       IN  /\ lastNewPusherAuth' = [args |-> <<key, secret>>, outcome |-> r]
           /\ pusherAuth' = IF r.kind = "return" THEN r.value ELSE pusherAuth
    /\ UNCHANGED <<pusher, lastNewPusher, now, calls>>

\* Time passes.
Tick ==
    /\ now < MaxClock
    /\ now' = now + 1
    /\ UNCHANGED <<pusher, pusherAuth, lastNewPusher, lastNewPusherAuth, calls>>

(***************************************************************************)
(* Channel authorization (Pusher and PusherAuth)                           *)
(***************************************************************************)
\* Arguments (socketId, channel) of authorizeChannel.
AuthorizeArgs ==
    { <<Str("1.1"), Str("private-x")>>,
      <<Str(""), Str("private-x")>>,
      <<Str("1.1"), Str("")>> }

\* Arguments (socketId, channel, presenceData) of authenticatePresenceChannel.
PresenceArgs ==
    { <<Str("1.1"), Str("presence-x"),
        Obj(<<<<"user_id", Str("u1")>>,
              <<"user_info", Obj(<<<<"name", Str("A")>>>>)>>>>)>>,
      <<Str("1.1"), Str("presence-x"), Obj(<<<<"user_id", Str("u1")>>>>)>>,
      <<Str("1.1"), Str("presence-x"),
        Obj(<<<<"user_id", Str("u1")>>,
              <<"user_info", Obj(<<<<"score", NaN>>>>)>>>>)>>,
      <<Str("1.1"), Str("presence-x"),
        Obj(<<<<"user_id", Str("u1")>>,
              <<"user_info", Obj(<<<<"name", Undefined>>>>)>>>>)>>,
      <<Str(""), Str("presence-x"), Obj(<<<<"user_id", Str("u1")>>>>)>>,
      <<Str("1.1"), Str(""), Obj(<<<<"user_id", Str("u1")>>>>)>>,
      <<Str("1.1"), Str("presence-x"), Undefined>>,
      <<Str("1.1"), Str("presence-x"), Obj(<<>>)>>,
      <<Str("1.1"), Str("presence-x"), Obj(<<<<"user_id", Str("")>>>>)>> }

\* computeHMAC(data) up to its first await: importKey('raw', encode(secret), ...).
computeHMAC(c, self, data) ==
    Await([c EXCEPT !.stringToSign = data], "computeHMAC.importKey",
          [p |-> "importKey", secret |-> self.secret])

\* authorizeChannel signing channel:socketId.
authorizeChannel_Swapped(c, self, socketId, channel) ==
    IF Falsy(socketId) \/ Falsy(channel)
    THEN Finish(c, Throw(ErrorOf("Socket ID and channel are required for authorization")))
    ELSE Await([c EXCEPT !.stringToSign = channel.s \o ":" \o socketId.s],
               "computeHMAC.importKey", [p |-> "importKey", secret |-> self.secret])

\* Pusher.authorizeChannel(socketId, channel) up to its first await.
authorizeChannel(c, self, socketId, channel) ==
    IF Falsy(socketId) \/ Falsy(channel)
    THEN Finish(c, Throw(ErrorOf("Socket ID and channel are required for authorization")))
    ELSE computeHMAC(c, self, socketId.s \o ":" \o channel.s)

\* ... and after computeHMAC has resolved with signature.
authorizeChannelReturn(c, self, signature) ==
    Finish(c, Return([auth |-> self.key \o ":" \o signature]))

\* authenticatePresenceChannel without the user_id check.
authenticatePresenceChannel_NoUserIdCheck(c, self, socketId, channel, presenceData) ==
    IF Falsy(socketId) \/ Falsy(channel) \/ Falsy(presenceData)
    THEN Finish(c, Throw(ErrorOf("Socket ID, channel, and presence data are required")))
    ELSE LET channelData == JSONStringify(presenceData)
         IN  Await([c EXCEPT !.channelData = channelData,
                             !.stringToSign = socketId.s \o ":" \o channel.s \o ":"
                                                 \o channelData],
                   "computeHMAC.importKey", [p |-> "importKey", secret |-> self.secret])

\* Pusher.authenticatePresenceChannel(socketId, channel, presenceData) up to
\* its first await.
authenticatePresenceChannel(c, self, socketId, channel, presenceData) ==
    IF Falsy(socketId) \/ Falsy(channel) \/ Falsy(presenceData)
    THEN Finish(c, Throw(ErrorOf("Socket ID, channel, and presence data are required")))
    ELSE IF Falsy(Prop(presenceData, "user_id"))
    THEN Finish(c, Throw(ErrorOf("user_id is required in presence data")))
    ELSE LET channelData == JSONStringify(presenceData)
         IN  computeHMAC([c EXCEPT !.channelData = channelData], self,
                         socketId.s \o ":" \o channel.s \o ":" \o channelData)

\* authenticatePresenceChannel returning a second serialization, of the
\* user_id alone, instead of the string it signed.
authenticatePresenceChannelReturn_Reserialized(c, self, signature) ==
    Finish(c, Return([auth |-> self.key \o ":" \o signature,
                      channel_data |->
                         JSONStringify(Obj(<< <<"user_id", Prop(c.args[3], "user_id")>> >>))]))

\* ... and after computeHMAC has resolved with signature.
authenticatePresenceChannelReturn(c, self, signature) ==
    Finish(c, Return([auth |-> self.key \o ":" \o signature,
                      channel_data |-> c.channelData]))

\* PusherAuth.computeHMAC(data) up to its first await.
PusherAuth_computeHMAC(c, self, data) ==
    Await([c EXCEPT !.stringToSign = data], "computeHMAC.importKey",
          [p |-> "importKey", secret |-> self.secret])

\* PusherAuth.authorizeChannel(socketId, channel) up to its first await.
PusherAuth_authorizeChannel(c, self, socketId, channel) ==
    IF Falsy(socketId) \/ Falsy(channel)
    THEN Finish(c, Throw(ErrorOf("Socket ID and channel are required for authorization")))
    ELSE PusherAuth_computeHMAC(c, self, socketId.s \o ":" \o channel.s)

\* PusherAuth.authorizeChannel prefixing the token with the secret.
PusherAuth_authorizeChannelReturn_SecretPrefix(c, self, signature) ==
    Finish(c, Return([auth |-> self.secret \o ":" \o signature]))

PusherAuth_authorizeChannelReturn(c, self, signature) ==
    Finish(c, Return([auth |-> self.key \o ":" \o signature]))

\* PusherAuth.authenticatePresenceChannel(socketId, channel, presenceData) up
\* to its first await.
PusherAuth_authenticatePresenceChannel(c, self, socketId, channel, presenceData) ==
    IF Falsy(socketId) \/ Falsy(channel) \/ Falsy(presenceData)
    THEN Finish(c, Throw(ErrorOf("Socket ID, channel, and presence data are required")))
    ELSE IF Falsy(Prop(presenceData, "user_id"))
    THEN Finish(c, Throw(ErrorOf("user_id is required in presence data")))
    ELSE LET channelData == JSONStringify(presenceData)
         IN  PusherAuth_computeHMAC([c EXCEPT !.channelData = channelData], self,
                                    socketId.s \o ":" \o channel.s \o ":" \o channelData)

PusherAuth_authenticatePresenceChannelReturn(c, self, signature) ==
    Finish(c, Return([auth |-> self.key \o ":" \o signature,
                      channel_data |-> c.channelData]))

(***************************************************************************)
(* REST calls (Pusher)                                                     *)
(***************************************************************************)
\* Arguments (channelsOrOptions, event, data, socketId) of trigger.
TriggerArgs ==
    { <<Arr(<<Str("ch1"), Str("ch2")>>), Str("ev"), Str("hi"), Str("7.7")>>,
      <<Obj(<<<<"channels", Str("ch1")>>, <<"event", Str("ev")>>, <<"data", Num(5)>>>>),
        Undefined, Undefined, Undefined>> }

\* Arguments (events) of triggerBatch.
TriggerBatchArgs ==
    { <<Arr(<<Obj(<<<<"channel", Str("ch1")>>, <<"name", Str("ev")>>,
                    <<"data", Str("hi")>>>>),
              Obj(<<<<"channel", Str("ch2")>>, <<"name", Str("ev")>>,
                    <<"data", Num(5)>>, <<"socketId", Str("7.7")>>>>)>>)>> }

\* Arguments (channel, options) of getChannel.
GetChannelArgs ==
    { <<Str("ch1"), Undefined>>,
      <<Str("ch1"),
        Obj(<<<<"info", Arr(<<Str("user_count"), Str("subscription_count")>>)>>>>)>> }

\* Arguments (prefix, options) of getChannels.
GetChannelsArgs ==
    { <<Undefined, Undefined>>,
      <<Str("presence-"), Obj(<<<<"info", Arr(<<Str("user_count")>>)>>>>)>> }

\* The responses fetch may resolve with.
Responses ==
    { [ok |-> TRUE, status |-> 200, statusText |-> "OK", text |-> "{}"],
      [ok |-> FALSE, status |-> 400, statusText |-> "Bad Request", text |-> "bad"],
      [ok |-> FALSE, status |-> 500, statusText |-> "Internal Server Error", text |-> ""] }

\* application/x-www-form-urlencoded byte serialization of the model's
\* strings: only the comma of a joined info list is outside the unreserved
\* set (digests and signatures stand for hex strings).
UrlEncode(s) ==
    IF s = "user_count,subscription_count" THEN "user_count%2Csubscription_count"
    ELSE s

\* URLSearchParams.prototype.toString: `${query}`.
QueryToString(query) ==
    Join([i \in 1..Len(query) |-> UrlEncode(query[i][1]) \o "=" \o UrlEncode(query[i][2])],
         "&")

\* URLSearchParams.prototype.set(name, value) for a name not yet present.
QuerySet(query, name, value) == Append(query, <<name, value>>)

\* options.info.join(',') for an array of strings.
InfoJoin(info) == Join([i \in 1..Len(info.items) |-> info.items[i].s], ",")

\* computeMD5(str) up to its await: crypto.subtle.digest('MD5', encode(str)).
computeMD5(c, str) ==
    Await(c, "computeMD5.digest", [p |-> "digest", algorithm |-> "MD5", data |-> str])

\* computeMD5 after digest resolved: the hex string of the hash.
computeMD5Resolved(c) ==
    [c EXCEPT !.md5 = MD5Hex(c.trace[Len(c.trace)].data)]

\* computeMD5 after digest rejected: the catch block warns and returns ''.
computeMD5Rejected(c) ==
    [c EXCEPT !.md5 = "",
              !.warnings = Append(@, "MD5 not available, using empty hash")]

\* createSignature with the digest tested against undefined instead of for
\* truthiness: an empty digest is signed as `body_md5=`.
createSignature_EmptyDigestKept(c, self, method, path, timestamp, md5) ==
    LET parts == << "auth_key=" \o self.key,
                    "auth_timestamp=" \o ToString(timestamp),
                    "auth_version=1.0" >>
                 \o (IF md5.t # "undefined" THEN << "body_md5=" \o md5.s >> ELSE << >>)
        stringToSign == method \o "\n" \o path \o "\n" \o Join(parts, "&")
    IN  Await([c EXCEPT !.queryParts = parts, !.stringToSign = stringToSign],
              "createSignature.importKey",
              [p |-> "importKey", secret |-> self.secret])

\* createSignature with the pairs in another order: auth_timestamp first.
createSignature_Reordered(c, self, method, path, timestamp, md5) ==
    LET parts == << "auth_timestamp=" \o ToString(timestamp),
                    "auth_key=" \o self.key,
                    "auth_version=1.0" >>
                 \o (IF ~Falsy(md5) THEN << "body_md5=" \o md5.s >> ELSE << >>)
        stringToSign == method \o "\n" \o path \o "\n" \o Join(parts, "&")
    IN  Await([c EXCEPT !.queryParts = parts, !.stringToSign = stringToSign],
              "createSignature.importKey",
              [p |-> "importKey", secret |-> self.secret])

\* createSignature(method, path, timestamp, body, md5) up to its first await;
\* md5 is undefined when the argument is not passed.
createSignature(c, self, method, path, timestamp, md5) ==
    LET parts == << "auth_key=" \o self.key,
                    "auth_timestamp=" \o ToString(timestamp),
                    "auth_version=1.0" >>
                 \o (IF ~Falsy(md5) THEN << "body_md5=" \o md5.s >> ELSE << >>)
        queryParams == Join(parts, "&")
        stringToSign == method \o "\n" \o path \o "\n" \o queryParams
    IN  Await([c EXCEPT !.queryParts = parts, !.stringToSign = stringToSign],
              "createSignature.importKey",
              [p |-> "importKey", secret |-> self.secret])

\* createSignature / computeHMAC after importKey resolved with the key of
\* `secret`: crypto.subtle.sign('HMAC', key, encodedData).
createSignatureImported(c, secret) ==
    Await(c, "createSignature.sign",
          [p |-> "sign", key |-> secret, data |-> c.stringToSign])

computeHMACImported(c, secret) ==
    Await(c, "computeHMAC.sign",
          [p |-> "sign", key |-> secret, data |-> c.stringToSign])

PusherAuth_computeHMACImported(c, secret) ==
    Await(c, "computeHMAC.sign",
          [p |-> "sign", key |-> secret, data |-> c.stringToSign])

\* trigger(channelsOrOptions, event, data, socketId) up to its first await.
trigger(c, self, channelsOrOptions, event, data, socketId, clock) ==
    LET isOptions == channelsOrOptions.t = "object"
                        /\ HasProp(channelsOrOptions, "channels")
        given == IF isOptions THEN Prop(channelsOrOptions, "channels")
                 ELSE channelsOrOptions
        channels == IF given.t = "array" THEN given ELSE Arr(<<given>>)
        eventName == IF isOptions THEN Prop(channelsOrOptions, "event") ELSE event
        eventData == IF isOptions THEN Prop(channelsOrOptions, "data") ELSE data
        excludeSocketId == IF isOptions THEN Prop(channelsOrOptions, "socketId")
                           ELSE socketId
        timestamp == clock
        payload == Obj(<< <<"name", eventName>>,
                          <<"data", IF eventData.t = "string" THEN eventData
                                    ELSE Str(JSONStringify(eventData))>>,
                          <<"channels", channels>> >>
                       \o (IF ~Falsy(excludeSocketId)
                           THEN << <<"socket_id", excludeSocketId>> >> ELSE << >>))
        body == JSONStringify(payload)
    IN  computeMD5([c EXCEPT !.timestamp = timestamp, !.body = body], body)

\* trigger after computeMD5 returned: createSignature('POST', ...).
triggerSign(c, self) ==
    createSignature(c, self, "POST", "/apps/" \o self.appId \o "/events",
                    c.timestamp, Str(c.md5))

\* trigger reading the clock a second time when it builds the query.
triggerSend_ClockReread(c, self, signature) ==
    LET query == << <<"auth_key", self.key>>,
                    <<"auth_timestamp", ToString(now)>>,
                    <<"auth_version", "1.0">>,
                    <<"body_md5", c.md5>>,
                    <<"auth_signature", signature>> >>
        url == self.baseUrl \o "/apps/" \o self.appId \o "/events?"
                  \o QueryToString(query)
    IN  Await([c EXCEPT !.signature = signature, !.query = query], "fetch",
              [p |-> "fetch", url |-> url, method |-> "POST", body |-> Str(c.body)])

\* trigger after createSignature returned: the query, the url and fetch.
triggerSend(c, self, signature) ==
    LET query == << <<"auth_key", self.key>>,
                    <<"auth_timestamp", ToString(c.timestamp)>>,
                    <<"auth_version", "1.0">>,
                    <<"body_md5", c.md5>>,
                    <<"auth_signature", signature>> >>
        url == self.baseUrl \o "/apps/" \o self.appId \o "/events?"
                  \o QueryToString(query)
    IN  Await([c EXCEPT !.signature = signature, !.query = query], "fetch",
              [p |-> "fetch", url |-> url, method |-> "POST", body |-> Str(c.body)])

\* trigger after fetch resolved with response: response.text() on both branches.
triggerReadBody(c, response) ==
    Await([c EXCEPT !.response = response], "response.text", [p |-> "text"])

\* trigger returning the response text without the `HTTP <status>` fallback.
triggerReturn_NoFallback(c) ==
    IF ~c.response.ok
    THEN Finish(c, Return([success |-> FALSE, error |-> c.response.text,
                           status |-> c.response.status]))
    ELSE Finish(c, Return([success |-> TRUE]))

\* trigger after response.text() resolved.
triggerReturn(c) ==
    IF ~c.response.ok
    THEN Finish(c, Return([success |-> FALSE,
                           error |-> IF c.response.text # "" THEN c.response.text
                                     ELSE "HTTP " \o ToString(c.response.status),
                           status |-> c.response.status]))
    ELSE Finish(c, Return([success |-> TRUE]))

\* trigger's catch block sending the request when it has not been sent yet.
triggerCatch_SendAnyway(c, error) ==
    IF \A i \in 1..Len(c.trace) : c.trace[i].p # "fetch"
    THEN Await(c, "fetch",
               [p |-> "fetch", url |-> "", method |-> "POST", body |-> Str(c.body)])
    ELSE Finish(c, Return([success |-> FALSE,
                           error |-> IF error.t = "error" THEN error.message
                                     ELSE "Unknown error"]))

\* trigger's catch block.
triggerCatch(c, error) ==
    Finish(c, Return([success |-> FALSE,
                      error |-> IF error.t = "error" THEN error.message
                                ELSE "Unknown error"]))

\* triggerBatch(events) up to its first await.
triggerBatch(c, self, events, clock) ==
    LET timestamp == clock
        batch == Arr([i \in 1..Len(events.items) |->
                   LET event == events.items[i]
                       data == Prop(event, "data")
                   IN  Obj(<< <<"channel", Prop(event, "channel")>>,
                              <<"name", Prop(event, "name")>>,
                              <<"data", IF data.t = "string" THEN data
                                        ELSE Str(JSONStringify(data))>> >>
                           \o (IF ~Falsy(Prop(event, "socketId"))
                               THEN << <<"socket_id", Prop(event, "socketId")>> >>
                               ELSE << >>))])
        payload == Obj(<< <<"batch", batch>> >>)
        body == JSONStringify(payload)
    IN  computeMD5([c EXCEPT !.timestamp = timestamp, !.body = body], body)

triggerBatchSign(c, self) ==
    createSignature(c, self, "POST", "/apps/" \o self.appId \o "/batch_events",
                    c.timestamp, Str(c.md5))

triggerBatchSend(c, self, signature) ==
    LET query == << <<"auth_key", self.key>>,
                    <<"auth_timestamp", ToString(c.timestamp)>>,
                    <<"auth_version", "1.0">>,
                    <<"body_md5", c.md5>>,
                    <<"auth_signature", signature>> >>
        url == self.baseUrl \o "/apps/" \o self.appId \o "/batch_events?"
                  \o QueryToString(query)
    IN  Await([c EXCEPT !.signature = signature, !.query = query], "fetch",
              [p |-> "fetch", url |-> url, method |-> "POST", body |-> Str(c.body)])

triggerBatchReadBody(c, response) ==
    Await([c EXCEPT !.response = response], "response.text", [p |-> "text"])

triggerBatchReturn(c) ==
    IF ~c.response.ok
    THEN Finish(c, Return([success |-> FALSE,
                           error |-> IF c.response.text # "" THEN c.response.text
                                     ELSE "HTTP " \o ToString(c.response.status),
                           status |-> c.response.status]))
    ELSE Finish(c, Return([success |-> TRUE]))

triggerBatchCatch(c, error) ==
    Finish(c, Return([success |-> FALSE,
                      error |-> IF error.t = "error" THEN error.message
                                ELSE "Unknown error"]))

\* getChannel(channel, options) up to its first await.
getChannel(c, self, channel, options, clock) ==
    LET timestamp == clock
        path == "/apps/" \o self.appId \o "/channels/" \o channel.s
        info == IF options.t = "undefined" THEN Undefined ELSE Prop(options, "info")
        query == << <<"auth_key", self.key>>,
                    <<"auth_timestamp", ToString(timestamp)>>,
                    <<"auth_version", "1.0">> >>
                 \o (IF ~Falsy(info) THEN << <<"info", InfoJoin(info)>> >> ELSE << >>)
    IN  createSignature([c EXCEPT !.timestamp = timestamp, !.path = path,
                                  !.query = query],
                        self, "GET", path, timestamp, Undefined)

\* getChannel after createSignature returned.
getChannelSend(c, self, signature) ==
    LET query == QuerySet(c.query, "auth_signature", signature)
        url == self.baseUrl \o c.path \o "?" \o QueryToString(query)
    IN  Await([c EXCEPT !.signature = signature, !.query = query], "fetch",
              [p |-> "fetch", url |-> url, method |-> "GET", body |-> Undefined])

\* getChannel after fetch resolved: response.text() when not ok, else
\* response.json().
getChannelReadBody(c, response) ==
    IF ~response.ok
    THEN Await([c EXCEPT !.response = response], "response.text", [p |-> "text"])
    ELSE Await([c EXCEPT !.response = response], "response.json", [p |-> "json"])

\* getChannel after the body was read.
getChannelReturn(c) ==
    IF ~c.response.ok
    THEN Finish(c, Throw(ErrorOf("Failed to get channel info: "
                                 \o (IF c.response.text # "" THEN c.response.text
                                     ELSE c.response.statusText))))
    ELSE Finish(c, Return([json |-> c.response.text]))

\* getChannels(prefix, options) up to its first await.
getChannels(c, self, prefix, options, clock) ==
    LET timestamp == clock
        path == "/apps/" \o self.appId \o "/channels"
        info == IF options.t = "undefined" THEN Undefined ELSE Prop(options, "info")
        query == << <<"auth_key", self.key>>,
                    <<"auth_timestamp", ToString(timestamp)>>,
                    <<"auth_version", "1.0">> >>
                 \o (IF ~Falsy(prefix) THEN << <<"filter_by_prefix", prefix.s>> >>
                     ELSE << >>)
                 \o (IF ~Falsy(info) THEN << <<"info", InfoJoin(info)>> >> ELSE << >>)
    IN  createSignature([c EXCEPT !.timestamp = timestamp, !.path = path,
                                  !.query = query],
                        self, "GET", path, timestamp, Undefined)

getChannelsSend(c, self, signature) ==
    LET query == QuerySet(c.query, "auth_signature", signature)
        url == self.baseUrl \o c.path \o "?" \o QueryToString(query)
    IN  Await([c EXCEPT !.signature = signature, !.query = query], "fetch",
              [p |-> "fetch", url |-> url, method |-> "GET", body |-> Undefined])

getChannelsReadBody(c, response) ==
    IF ~response.ok
    THEN Await([c EXCEPT !.response = response], "response.text", [p |-> "text"])
    ELSE Await([c EXCEPT !.response = response], "response.json", [p |-> "json"])

getChannelsReturn(c) ==
    IF ~c.response.ok
    THEN Finish(c, Throw(ErrorOf("Failed to get channels: "
                                 \o (IF c.response.text # "" THEN c.response.text
                                     ELSE c.response.statusText))))
    ELSE Finish(c, Return([json |-> c.response.text]))

(***************************************************************************)
(* Actions: a call is made                                                 *)
(***************************************************************************)
NewCall(op, args) == [IdleCall EXCEPT !.op = op, !.args = args]

RestOps == {"trigger", "triggerBatch", "getChannel", "getChannels"}
PusherAuthOps == {"PusherAuth.authorizeChannel", "PusherAuth.authenticatePresenceChannel"}

\* `this` of the call in slot cid.
SelfOf(c) == IF c.op \in PusherAuthOps THEN pusherAuth ELSE pusher

\* A new call takes the lowest idle slot (slots are interchangeable).
FreeSlot(cid) ==
    /\ calls[cid].pc = "idle"
    /\ \A d \in DOMAIN calls : d < cid => calls[d].pc # "idle"

TriggerCallWith(cid, a) ==
    /\ pusher # NoInstance
    /\ FreeSlot(cid)
    /\ calls' = [calls EXCEPT ![cid] =
                trigger(NewCall("trigger", a), pusher, a[1], a[2], a[3], a[4], now)]
    /\ UNCHANGED <<pusher, pusherAuth, lastNewPusher, lastNewPusherAuth, now>>

TriggerCall(cid) == \E a \in TriggerArgs : TriggerCallWith(cid, a)

TriggerBatchCall(cid) ==
    /\ pusher # NoInstance
    /\ FreeSlot(cid)
    /\ \E a \in TriggerBatchArgs :
          calls' = [calls EXCEPT ![cid] =
                       triggerBatch(NewCall("triggerBatch", a), pusher, a[1], now)]
    /\ UNCHANGED <<pusher, pusherAuth, lastNewPusher, lastNewPusherAuth, now>>

GetChannelCall(cid) ==
    /\ pusher # NoInstance
    /\ FreeSlot(cid)
    /\ \E a \in GetChannelArgs :
          calls' = [calls EXCEPT ![cid] =
                       getChannel(NewCall("getChannel", a), pusher, a[1], a[2], now)]
    /\ UNCHANGED <<pusher, pusherAuth, lastNewPusher, lastNewPusherAuth, now>>

GetChannelsCall(cid) ==
    /\ pusher # NoInstance
    /\ FreeSlot(cid)
    /\ \E a \in GetChannelsArgs :
          calls' = [calls EXCEPT ![cid] =
                       getChannels(NewCall("getChannels", a), pusher, a[1], a[2], now)]
    /\ UNCHANGED <<pusher, pusherAuth, lastNewPusher, lastNewPusherAuth, now>>

AuthorizeChannelCallWith(cid, a) ==
    /\ pusher # NoInstance
    /\ FreeSlot(cid)
    /\ calls' = [calls EXCEPT ![cid] =
                authorizeChannel(NewCall("authorizeChannel", a), pusher, a[1], a[2])]
    /\ UNCHANGED <<pusher, pusherAuth, lastNewPusher, lastNewPusherAuth, now>>

AuthorizeChannelCall(cid) == \E a \in AuthorizeArgs : AuthorizeChannelCallWith(cid, a)

AuthenticatePresenceChannelCallWith(cid, a) ==
    /\ pusher # NoInstance
    /\ FreeSlot(cid)
    /\ calls' = [calls EXCEPT ![cid] =
                authenticatePresenceChannel(
                    NewCall("authenticatePresenceChannel", a), pusher, a[1], a[2], a[3])]
    /\ UNCHANGED <<pusher, pusherAuth, lastNewPusher, lastNewPusherAuth, now>>

AuthenticatePresenceChannelCall(cid) == \E a \in PresenceArgs : AuthenticatePresenceChannelCallWith(cid, a)

PusherAuthAuthorizeChannelCallWith(cid, a) ==
    /\ pusherAuth # NoInstance
    /\ FreeSlot(cid)
    /\ calls' = [calls EXCEPT ![cid] =
                PusherAuth_authorizeChannel(
                    NewCall("PusherAuth.authorizeChannel", a), pusherAuth, a[1], a[2])]
    /\ UNCHANGED <<pusher, pusherAuth, lastNewPusher, lastNewPusherAuth, now>>

PusherAuthAuthorizeChannelCall(cid) == \E a \in AuthorizeArgs : PusherAuthAuthorizeChannelCallWith(cid, a)

PusherAuthAuthenticatePresenceChannelCallWith(cid, a) ==
    /\ pusherAuth # NoInstance
    /\ FreeSlot(cid)
    /\ calls' = [calls EXCEPT ![cid] =
                PusherAuth_authenticatePresenceChannel(
                    NewCall("PusherAuth.authenticatePresenceChannel", a), pusherAuth,
                    a[1], a[2], a[3])]
    /\ UNCHANGED <<pusher, pusherAuth, lastNewPusher, lastNewPusherAuth, now>>

PusherAuthAuthenticatePresenceChannelCall(cid) == \E a \in PresenceArgs : PusherAuthAuthenticatePresenceChannelCallWith(cid, a)

(***************************************************************************)
(* Actions: the runtime settles the awaited primitive and the call runs to *)
(* its next await or to its end                                            *)
(***************************************************************************)
\* A rejection reaches the call's own code: trigger and triggerBatch await
\* inside their try block, the other methods have no handler.
Rejected(c, error) ==
    CASE c.op = "trigger" -> triggerCatch(c, error)
      [] c.op = "triggerBatch" -> triggerBatchCatch(c, error)
      [] OTHER -> Finish(c, Throw(error))

LastInvocation(c) == c.trace[Len(c.trace)]

DigestResolve(cid) ==
    /\ calls[cid].pc = "computeMD5.digest"
    /\ LET c == computeMD5Resolved(Settle(calls[cid], "resolved"))
       IN  calls' = [calls EXCEPT ![cid] =
                        IF c.op = "trigger" THEN triggerSign(c, pusher)
                        ELSE triggerBatchSign(c, pusher)]
    /\ UNCHANGED <<pusher, pusherAuth, lastNewPusher, lastNewPusherAuth, now>>

DigestReject(cid) ==
    /\ calls[cid].pc = "computeMD5.digest"
    /\ LET c == computeMD5Rejected(Settle(calls[cid], "rejected"))
       IN  calls' = [calls EXCEPT ![cid] =
                        IF c.op = "trigger" THEN triggerSign(c, pusher)
                        ELSE triggerBatchSign(c, pusher)]
    /\ UNCHANGED <<pusher, pusherAuth, lastNewPusher, lastNewPusherAuth, now>>

ImportKeyResolve(cid) ==
    /\ calls[cid].pc \in {"createSignature.importKey", "computeHMAC.importKey"}
    /\ LET c == Settle(calls[cid], "resolved")
           secret == LastInvocation(c).secret
       IN  calls' = [calls EXCEPT ![cid] =
                        IF c.pc = "createSignature.importKey"
                        THEN createSignatureImported(c, secret)
                        ELSE IF c.op \in PusherAuthOps
                        THEN PusherAuth_computeHMACImported(c, secret)
                        ELSE computeHMACImported(c, secret)]
    /\ UNCHANGED <<pusher, pusherAuth, lastNewPusher, lastNewPusherAuth, now>>

ImportKeyReject(cid) ==
    /\ calls[cid].pc \in {"createSignature.importKey", "computeHMAC.importKey"}
    /\ calls' = [calls EXCEPT ![cid] =
                    Rejected(Settle(calls[cid], "rejected"), ImportKeyError)]
    /\ UNCHANGED <<pusher, pusherAuth, lastNewPusher, lastNewPusherAuth, now>>

\* The continuation of the call after its signature is known.
Signed(c, self, signature) ==
    CASE c.op = "trigger" -> triggerSend(c, self, signature)
      [] c.op = "triggerBatch" -> triggerBatchSend(c, self, signature)
      [] c.op = "getChannel" -> getChannelSend(c, self, signature)
      [] c.op = "getChannels" -> getChannelsSend(c, self, signature)
      [] c.op = "authorizeChannel" -> authorizeChannelReturn(c, self, signature)
      [] c.op = "authenticatePresenceChannel" ->
            authenticatePresenceChannelReturn(c, self, signature)
      [] c.op = "PusherAuth.authorizeChannel" ->
            PusherAuth_authorizeChannelReturn(c, self, signature)
      [] c.op = "PusherAuth.authenticatePresenceChannel" ->
            PusherAuth_authenticatePresenceChannelReturn(c, self, signature)

\* sign working on one buffer shared by the calls: the key and data signed
\* are those of the first slot that is suspended on sign.
SignResolve_SharedBuffer(cid) ==
    /\ calls[cid].pc \in {"createSignature.sign", "computeHMAC.sign"}
    /\ LET c == Settle(calls[cid], "resolved")
           waiting == {d \in DOMAIN calls :
                         calls[d].pc \in {"createSignature.sign", "computeHMAC.sign"}}
           first == CHOOSE d \in waiting : \A e \in waiting : d <= e
           signature == HMACHex(LastInvocation(calls[first]).key,
                                LastInvocation(calls[first]).data)
       IN  calls' = [calls EXCEPT ![cid] = Signed(c, SelfOf(c), signature)]
    /\ UNCHANGED <<pusher, pusherAuth, lastNewPusher, lastNewPusherAuth, now>>

SignResolve(cid) ==
    /\ calls[cid].pc \in {"createSignature.sign", "computeHMAC.sign"}
    /\ LET c == Settle(calls[cid], "resolved")
           signature == HMACHex(LastInvocation(c).key, LastInvocation(c).data)
       IN  calls' = [calls EXCEPT ![cid] = Signed(c, SelfOf(c), signature)]
    /\ UNCHANGED <<pusher, pusherAuth, lastNewPusher, lastNewPusherAuth, now>>

SignReject(cid) ==
    /\ calls[cid].pc \in {"createSignature.sign", "computeHMAC.sign"}
    /\ calls' = [calls EXCEPT ![cid] =
                    Rejected(Settle(calls[cid], "rejected"), SignError)]
    /\ UNCHANGED <<pusher, pusherAuth, lastNewPusher, lastNewPusherAuth, now>>

\* The continuation of the call after fetch resolved.
Fetched(c, response) ==
    CASE c.op = "trigger" -> triggerReadBody(c, response)
      [] c.op = "triggerBatch" -> triggerBatchReadBody(c, response)
      [] c.op = "getChannel" -> getChannelReadBody(c, response)
      [] c.op = "getChannels" -> getChannelsReadBody(c, response)

FetchResolve(cid) ==
    /\ calls[cid].pc = "fetch"
    /\ \E response \in Responses :
          calls' = [calls EXCEPT ![cid] =
                       Fetched(Settle(calls[cid], "resolved"), response)]
    /\ UNCHANGED <<pusher, pusherAuth, lastNewPusher, lastNewPusherAuth, now>>

FetchReject(cid) ==
    /\ calls[cid].pc = "fetch"
    /\ calls' = [calls EXCEPT ![cid] =
                    Rejected(Settle(calls[cid], "rejected"), FetchError)]
    /\ UNCHANGED <<pusher, pusherAuth, lastNewPusher, lastNewPusherAuth, now>>

\* The continuation of the call after the response body was read.
BodyRead(c) ==
    CASE c.op = "trigger" -> triggerReturn(c)
      [] c.op = "triggerBatch" -> triggerBatchReturn(c)
      [] c.op = "getChannel" -> getChannelReturn(c)
      [] c.op = "getChannels" -> getChannelsReturn(c)

BodyResolve(cid) ==
    /\ calls[cid].pc \in {"response.text", "response.json"}
    /\ calls' = [calls EXCEPT ![cid] = BodyRead(Settle(calls[cid], "resolved"))]
    /\ UNCHANGED <<pusher, pusherAuth, lastNewPusher, lastNewPusherAuth, now>>

BodyReject(cid) ==
    /\ calls[cid].pc \in {"response.text", "response.json"}
    /\ calls' = [calls EXCEPT ![cid] =
                    Rejected(Settle(calls[cid], "rejected"), BodyError)]
    /\ UNCHANGED <<pusher, pusherAuth, lastNewPusher, lastNewPusherAuth, now>>

(***************************************************************************)
(* Specification                                                           *)
(***************************************************************************)
Init ==
    /\ pusher = NoInstance
    /\ pusherAuth = NoInstance
    /\ lastNewPusher = NoNew
    /\ lastNewPusherAuth = NoNew
    /\ now = 1
    /\ calls = [cid \in CallIds |-> IdleCall]

Next ==
    \/ \E config \in PusherConfigs : NewPusher(config)
    \/ \E a \in PusherAuthArgs : NewPusherAuth(a[1], a[2])
    \/ Tick
    \/ \E cid \in CallIds : TriggerCall(cid)
    \/ \E cid \in CallIds : TriggerBatchCall(cid)
    \/ \E cid \in CallIds : GetChannelCall(cid)
    \/ \E cid \in CallIds : GetChannelsCall(cid)
    \/ \E cid \in CallIds : AuthorizeChannelCall(cid)
    \/ \E cid \in CallIds : AuthenticatePresenceChannelCall(cid)
    \/ \E cid \in CallIds : PusherAuthAuthorizeChannelCall(cid)
    \/ \E cid \in CallIds : PusherAuthAuthenticatePresenceChannelCall(cid)
    \/ \E cid \in CallIds : DigestResolve(cid)
    \/ \E cid \in CallIds : DigestReject(cid)
    \/ \E cid \in CallIds : ImportKeyResolve(cid)
    \/ \E cid \in CallIds : ImportKeyReject(cid)
    \/ \E cid \in CallIds : SignResolve(cid)
    \/ \E cid \in CallIds : SignReject(cid)
    \/ \E cid \in CallIds : FetchResolve(cid)
    \/ \E cid \in CallIds : FetchReject(cid)
    \/ \E cid \in CallIds : BodyResolve(cid)
    \/ \E cid \in CallIds : BodyReject(cid)

Spec == Init /\ [][Next]_vars

\* The same program constructed with the Soketi config of the README.
NextSoketi ==
    \/ \E config \in SoketiConfigs : NewPusher(config)
    \/ \E a \in PusherAuthArgs : NewPusherAuth(a[1], a[2])
    \/ Tick
    \/ \E cid \in CallIds : TriggerCall(cid)
    \/ \E cid \in CallIds : TriggerBatchCall(cid)
    \/ \E cid \in CallIds : GetChannelCall(cid)
    \/ \E cid \in CallIds : GetChannelsCall(cid)
    \/ \E cid \in CallIds : AuthorizeChannelCall(cid)
    \/ \E cid \in CallIds : AuthenticatePresenceChannelCall(cid)
    \/ \E cid \in CallIds : PusherAuthAuthorizeChannelCall(cid)
    \/ \E cid \in CallIds : PusherAuthAuthenticatePresenceChannelCall(cid)
    \/ \E cid \in CallIds : DigestResolve(cid)
    \/ \E cid \in CallIds : DigestReject(cid)
    \/ \E cid \in CallIds : ImportKeyResolve(cid)
    \/ \E cid \in CallIds : ImportKeyReject(cid)
    \/ \E cid \in CallIds : SignResolve(cid)
    \/ \E cid \in CallIds : SignReject(cid)
    \/ \E cid \in CallIds : FetchResolve(cid)
    \/ \E cid \in CallIds : FetchReject(cid)
    \/ \E cid \in CallIds : BodyResolve(cid)
    \/ \E cid \in CallIds : BodyReject(cid)

SpecSoketi == Init /\ [][NextSoketi]_vars

(***************************************************************************)
(* Concurrent calls: both clients are constructed on the same credentials  *)
(* and NumConcurrent calls are in flight at once                           *)
(***************************************************************************)
ConcurrentIds == 1..NumConcurrent

\* Arguments of the concurrent calls: taken from TriggerArgs, AuthorizeArgs
\* and PresenceArgs.
ConcurrentTriggerArgs ==
    { <<Arr(<<Str("ch1"), Str("ch2")>>), Str("ev"), Str("hi"), Str("7.7")>> }
ConcurrentAuthorizeArgs ==
    { <<Str("1.1"), Str("private-x")>>,
      <<Str(""), Str("private-x")>> }
ConcurrentPresenceArgs ==
    { <<Str("1.1"), Str("presence-x"),
        Obj(<<<<"user_id", Str("u1")>>,
              <<"user_info", Obj(<<<<"name", Str("A")>>>>)>>>>)>>,
      <<Str("1.1"), Str("presence-x"), Undefined>> }

InitConcurrent ==
    /\ pusher = PusherConstructor(SharedConfig).value
    /\ pusherAuth = PusherAuthConstructor(SharedAuthArgs[1], SharedAuthArgs[2]).value
    /\ lastNewPusher = [args |-> <<SharedConfig>>,
                        outcome |-> PusherConstructor(SharedConfig)]
    /\ lastNewPusherAuth =
          [args |-> SharedAuthArgs,
           outcome |-> PusherAuthConstructor(SharedAuthArgs[1], SharedAuthArgs[2])]
    /\ now = 1
    /\ calls = [cid \in ConcurrentIds |-> IdleCall]

NextConcurrent ==
    \/ Tick
    \/ \E cid \in ConcurrentIds, a \in ConcurrentTriggerArgs : TriggerCallWith(cid, a)
    \/ \E cid \in ConcurrentIds, a \in ConcurrentAuthorizeArgs :
          AuthorizeChannelCallWith(cid, a)
    \/ \E cid \in ConcurrentIds, a \in ConcurrentPresenceArgs :
          AuthenticatePresenceChannelCallWith(cid, a)
    \/ \E cid \in ConcurrentIds, a \in ConcurrentAuthorizeArgs :
          PusherAuthAuthorizeChannelCallWith(cid, a)
    \/ \E cid \in ConcurrentIds, a \in ConcurrentPresenceArgs :
          PusherAuthAuthenticatePresenceChannelCallWith(cid, a)
    \/ \E cid \in ConcurrentIds : DigestResolve(cid)
    \/ \E cid \in ConcurrentIds : DigestReject(cid)
    \/ \E cid \in ConcurrentIds : ImportKeyResolve(cid)
    \/ \E cid \in ConcurrentIds : ImportKeyReject(cid)
    \/ \E cid \in ConcurrentIds : SignResolve(cid)
    \/ \E cid \in ConcurrentIds : SignReject(cid)
    \/ \E cid \in ConcurrentIds : FetchResolve(cid)
    \/ \E cid \in ConcurrentIds : FetchReject(cid)
    \/ \E cid \in ConcurrentIds : BodyResolve(cid)
    \/ \E cid \in ConcurrentIds : BodyReject(cid)

SpecConcurrent == InitConcurrent /\ [][NextConcurrent]_vars

(***************************************************************************)
(* Vocabulary of the properties                                            *)
(***************************************************************************)
TriggerOps == {"trigger", "triggerBatch"}
PrivateOps == {"authorizeChannel", "PusherAuth.authorizeChannel"}
PresenceOps == {"authenticatePresenceChannel", "PusherAuth.authenticatePresenceChannel"}

\* The call invoked primitive p at some point / the runtime rejected it.
Invoked(c, p) == \E i \in 1..Len(c.trace) : c.trace[i].p = p
RejectedAt(c, p) ==
    \E i \in 1..Len(c.settled) : c.trace[i].p = p /\ c.settled[i] = "rejected"
ResolvedAt(c, p) ==
    \E i \in 1..Len(c.settled) : c.trace[i].p = p /\ c.settled[i] = "resolved"
Count(c, p) == Cardinality({i \in 1..Len(c.trace) : c.trace[i].p = p})

\* Method and path of the REST endpoint the call addresses.
MethodOf(c) == IF c.op \in TriggerOps THEN "POST" ELSE "GET"
PathOf(c) ==
    CASE c.op = "trigger" -> "/apps/" \o pusher.appId \o "/events"
      [] c.op = "triggerBatch" -> "/apps/" \o pusher.appId \o "/batch_events"
      [] c.op = "getChannel" -> "/apps/" \o pusher.appId \o "/channels/" \o c.args[1].s
      [] c.op = "getChannels" -> "/apps/" \o pusher.appId \o "/channels"

\* method \n path \n auth_key=<key>&auth_timestamp=<ts>&auth_version=1.0
NoDigestCanonical(c) ==
    MethodOf(c) \o "\n" \o PathOf(c) \o "\nauth_key=" \o pusher.key
       \o "&auth_timestamp=" \o ToString(c.timestamp) \o "&auth_version=1.0"

\* C1: in trigger and triggerBatch, whenever digest('MD5') rejected, no
\* element of the signed query string is a body_md5 pair (with the digest or
\* with an empty value), the string handed to sign is the no-digest canonical
\* string, and the signature is its HMAC under the secret.
C1_DigestOmittedFromCanonical ==
    \A cid \in CallIds :
       LET c == calls[cid] IN
       (c.op \in TriggerOps /\ RejectedAt(c, "digest")) =>
          /\ Len(c.queryParts) = 3
          /\ \A i \in 1..Len(c.queryParts) :
                c.queryParts[i] \notin {"body_md5=", "body_md5=" \o MD5Hex(c.body)}
          /\ c.stringToSign = NoDigestCanonical(c)
          /\ \A i \in 1..Len(c.trace) :
                c.trace[i].p = "sign" => c.trace[i].data = NoDigestCanonical(c)
          /\ ResolvedAt(c, "sign") =>
                c.signature = HMACHex(pusher.secret, NoDigestCanonical(c))

C1_Witness ==
    \E cid \in CallIds :
       /\ calls[cid].op \in TriggerOps
       /\ RejectedAt(calls[cid], "digest")
       /\ ResolvedAt(calls[cid], "sign")

\* The parameters the request carries, other than auth_signature, and the
\* parameters that were signed, both as name=value strings.
SentParams(c) ==
    {c.query[i][1] \o "=" \o c.query[i][2] :
        i \in {j \in 1..Len(c.query) : c.query[j][1] # "auth_signature"}}
SignedParams(c) == {c.queryParts[i] : i \in 1..Len(c.queryParts)}

\* C2: in trigger and triggerBatch, whenever digest('MD5') rejected, the
\* request handed to fetch carries no body_md5 parameter, so that the
\* parameters sent (other than auth_signature) are the parameters signed.
C2_DigestOmittedFromRequest ==
    \A cid \in CallIds :
       LET c == calls[cid] IN
       (c.op \in TriggerOps /\ RejectedAt(c, "digest") /\ Invoked(c, "fetch")) =>
          /\ \A i \in 1..Len(c.query) : c.query[i][1] # "body_md5"
          /\ SentParams(c) = SignedParams(c)

\* C3: the string createSignature signs is method \n path \n queryString,
\* queryString being auth_key, auth_timestamp, auth_version and, only when a
\* digest is present, body_md5, joined by & in that order; the signature is
\* the HMAC-SHA256 of that string under the secret.
C3_CanonicalString ==
    \A cid \in CallIds :
       LET c == calls[cid]
           expected == NoDigestCanonical(c)
                          \o (IF ResolvedAt(c, "digest")
                              THEN "&body_md5=" \o MD5Hex(c.body) ELSE "")
       IN
       (c.op \in RestOps /\ Invoked(c, "importKey")) =>
          /\ c.stringToSign = expected
          /\ \A i \in 1..Len(c.trace) :
                /\ c.trace[i].p = "importKey" => c.trace[i].secret = pusher.secret
                /\ c.trace[i].p = "sign" =>
                      c.trace[i].key = pusher.secret /\ c.trace[i].data = expected
          /\ ResolvedAt(c, "sign") => c.signature = HMACHex(pusher.secret, expected)

C3_Witness ==
    /\ \E cid \in CallIds :
          /\ calls[cid].op \in TriggerOps
          /\ ResolvedAt(calls[cid], "digest")
          /\ ResolvedAt(calls[cid], "sign")

\* The arguments pass the validation the specification describes.
ValidSocketAndChannel(c) == c.args[1] # Str("") /\ c.args[2] # Str("")
ValidMemberData(c) ==
    /\ c.args[3] # Undefined
    /\ HasProp(c.args[3], "user_id")
    /\ Prop(c.args[3], "user_id") \notin {Str(""), Undefined}
ValidAuthArgs(c) ==
    /\ ValidSocketAndChannel(c)
    /\ c.op \in PresenceOps => ValidMemberData(c)

\* C4: for non-empty socketId and channel a completed authorizeChannel
\* returns exactly {auth: key:HMAC(secret, socketId:channel)}; with member
\* data holding a non-empty user_id a completed authenticatePresenceChannel
\* returns auth = key:HMAC(secret, socketId:channel:channelData).  A call with
\* valid arguments fails only when importKey or sign rejected.
C4_AuthToken ==
    \A cid \in CallIds :
       LET c == calls[cid]
           self == SelfOf(c)
           sid == c.args[1].s
           ch == c.args[2].s
       IN
       (c.op \in PrivateOps \cup PresenceOps /\ ValidAuthArgs(c) /\ c.pc = "done") =>
          /\ c.outcome.kind = "throw" => c.outcome.error \in {ImportKeyError, SignError}
          /\ (c.outcome.kind = "return" /\ c.op \in PrivateOps) =>
                c.outcome.value =
                   [auth |-> self.key \o ":" \o HMACHex(self.secret, sid \o ":" \o ch)]
          /\ (c.outcome.kind = "return" /\ c.op \in PresenceOps) =>
                /\ c.outcome.value.auth =
                      self.key \o ":"
                         \o HMACHex(self.secret,
                                    sid \o ":" \o ch \o ":" \o JSONStringify(c.args[3]))
                /\ c.args[3] = Obj(<<<<"user_id", Str("u1")>>,
                                     <<"user_info", Obj(<<<<"name", Str("A")>>>>)>>>>)
                      => c.outcome.value.auth =
                            self.key \o ":hmac(" \o self.secret
                               \o ",1.1:presence-x:{\"user_id\":\"u1\",\"user_info\":{\"name\":\"A\"}})"

C4_Witness ==
    \E cid \in CallIds :
       /\ calls[cid].op = "authenticatePresenceChannel"
       /\ calls[cid].outcome.kind = "return"
       /\ HasProp(calls[cid].args[3], "user_info")

\* The JSON values member data can parse to: objects with a user_id and,
\* optionally, a user_info object of at most one property.
JSONMemberValues ==
    LET infos == {Obj(<<>>)}
                    \cup {Obj(<< <<k, v>> >>) :
                            k \in {"name", "score"}, v \in {Str("A"), Num(1), Null}}
    IN  {Obj(<< <<"user_id", Str("u1")>> >>)}
           \cup {Obj(<< <<"user_id", Str("u1")>>, <<"user_info", i>> >>) : i \in infos}

\* JSON.parse(text): the JSON value whose text it is.
JSONParse(text) == CHOOSE v \in JSONMemberValues : JSONStringify(v) = text

RECURSIVE JSONRepresentable(_)
\* v holds only values JSON has: no undefined-valued property or element
\* and no NaN.
JSONRepresentable(v) ==
    CASE v.t \in {"undefined", "NaN"} -> FALSE
      [] v.t = "array" -> \A i \in 1..Len(v.items) : JSONRepresentable(v.items[i])
      [] v.t = "object" -> \A i \in 1..Len(v.fields) : JSONRepresentable(v.fields[i][2])
      [] OTHER -> TRUE

\* The returned channel_data is the string that was signed.
ChannelDataIsSigned(c) ==
    /\ Count(c, "sign") = 1
    /\ \A i \in 1..Len(c.trace) :
          c.trace[i].p = "sign" =>
             c.trace[i].data = c.args[1].s \o ":" \o c.args[2].s \o ":"
                                  \o c.outcome.value.channel_data

\* C5 as stated: for every successful authenticatePresenceChannel call the
\* returned channel_data is the string embedded in the signed string, and
\* parsing it as JSON yields the member data that was passed in.
C5_ChannelDataRoundTrip ==
    \A cid \in CallIds :
       LET c == calls[cid] IN
       (c.op \in PresenceOps /\ c.outcome.kind = "return") =>
          /\ ChannelDataIsSigned(c)
          /\ JSONParse(c.outcome.value.channel_data) = c.args[3]

\* C5 as amended: the returned channel_data is the string embedded in the
\* signed string, and parsing it as JSON yields the member data that was
\* passed in when the member data holds only JSON-representable values (no
\* property whose value is undefined, no NaN).
C5_ChannelDataRoundTripRepresentable ==
    \A cid \in CallIds :
       LET c == calls[cid] IN
       (c.op \in PresenceOps /\ c.outcome.kind = "return") =>
          /\ ChannelDataIsSigned(c)
          /\ JSONRepresentable(c.args[3]) =>
                JSONParse(c.outcome.value.channel_data) = c.args[3]

C5_Witness ==
    \E cid \in CallIds :
       /\ calls[cid].op \in PresenceOps
       /\ calls[cid].outcome.kind = "return"
       /\ JSONRepresentable(calls[cid].args[3])
       /\ HasProp(calls[cid].args[3], "user_info")
       /\ JSONParse(calls[cid].outcome.value.channel_data) = calls[cid].args[3]

\* C6: authorizeChannel fails whenever socketId or channel is empty, and
\* authenticatePresenceChannel also whenever member data is absent or its
\* user_id is missing or empty; the failing call has invoked no primitive
\* (importKey, sign) and produced no auth token.
C6_ValidationBeforeCrypto ==
    \A cid \in CallIds :
       LET c == calls[cid] IN
       (c.op \in PrivateOps \cup PresenceOps /\ ~ValidAuthArgs(c)) =>
          /\ c.pc = "done"
          /\ c.outcome.kind = "throw"
          /\ c.trace = << >>
          /\ c.signature = ""

C6_Witness ==
    \E cid \in CallIds :
       /\ calls[cid].op \in PresenceOps
       /\ ValidSocketAndChannel(calls[cid])
       /\ ~ValidMemberData(calls[cid])
       /\ calls[cid].outcome.kind = "throw"

\* A credential argument that is missing or empty.
MissingOrEmpty(v) == v \in {Undefined, Str("")}

\* C7: constructing a client with a missing or empty appId, key or secret
\* fails with an error and yields no instance, so every instance holds
\* non-empty credentials.
C7_ConstructorRejectsEmptyCredentials ==
    /\ ( /\ lastNewPusher # NoNew
         /\ \E n \in {"appId", "key", "secret"} :
               MissingOrEmpty(Prop(lastNewPusher.args[1], n)) )
          => lastNewPusher.outcome.kind = "throw" /\ pusher = NoInstance
    /\ ( /\ lastNewPusherAuth # NoNew
         /\ \E i \in 1..2 : MissingOrEmpty(lastNewPusherAuth.args[i]) )
          => lastNewPusherAuth.outcome.kind = "throw" /\ pusherAuth = NoInstance
    /\ pusher # NoInstance => pusher.appId # "" /\ pusher.key # "" /\ pusher.secret # ""
    /\ pusherAuth # NoInstance => pusherAuth.key # "" /\ pusherAuth.secret # ""

\* C7, for the Pusher class alone, with the immutability of the instance:
\* a bad config throws and leaves no instance, an instance holds non-empty
\* credentials, and once constructed the instance never changes.
C7_PusherCredentials ==
    /\ ( /\ lastNewPusher # NoNew
         /\ \E n \in {"appId", "key", "secret"} :
               MissingOrEmpty(Prop(lastNewPusher.args[1], n)) )
          => lastNewPusher.outcome.kind = "throw" /\ pusher = NoInstance
    /\ pusher # NoInstance => pusher.appId # "" /\ pusher.key # "" /\ pusher.secret # ""

C7_InstancesImmutable ==
    [][ /\ pusher # NoInstance => pusher' = pusher
        /\ pusherAuth # NoInstance => pusherAuth' = pusherAuth ]_vars

SigningOps == RestOps \cup PrivateOps \cup PresenceOps

\* C8: in every operation that signs, a failure of importKey or sign reaches
\* the caller as a thrown error, not as a return value, and the signing is
\* not retried.
C8_SigningFailurePropagates ==
    \A cid \in CallIds :
       LET c == calls[cid] IN
       (c.op \in SigningOps /\ (RejectedAt(c, "importKey") \/ RejectedAt(c, "sign"))) =>
          /\ c.pc = "done"
          /\ c.outcome.kind = "throw"
          /\ Count(c, "importKey") <= 1
          /\ Count(c, "sign") <= 1

\* C9: for each REST operation an HTTP non-2xx response is reported as a
\* result object and never thrown, while a signing error is thrown.
C9_TransportVersusSigningErrors ==
    \A cid \in CallIds :
       LET c == calls[cid] IN
       (c.op \in RestOps /\ c.pc = "done") =>
          /\ (ResolvedAt(c, "text") /\ ~c.response.ok) => c.outcome.kind = "return"
          /\ (RejectedAt(c, "importKey") \/ RejectedAt(c, "sign"))
                => c.outcome.kind = "throw"

\* The result trigger documents for a response that is not ok.
HttpFailure(response) ==
    [success |-> FALSE,
     error |-> IF response.text = "" THEN "HTTP " \o ToString(response.status)
               ELSE response.text,
     status |-> response.status]

\* C10 as stated: trigger and triggerBatch always resolve and never reject;
\* the result is {success: true} exactly when the response is ok; for a
\* response that is not ok it is success=false with the status and the
\* response text (or 'HTTP <status>'); for an error thrown during digest,
\* signing or fetch it is success=false with the error's message, no status.
C10_TriggerResult ==
    \A cid \in CallIds :
       LET c == calls[cid] IN
       (c.op \in TriggerOps /\ c.pc = "done") =>
          /\ c.outcome.kind = "return"
          /\ c.outcome.value = [success |-> TRUE]
                <=> (ResolvedAt(c, "fetch") /\ c.response.ok)
          /\ (ResolvedAt(c, "fetch") /\ ~c.response.ok)
                => c.outcome.value = HttpFailure(c.response)
          /\ RejectedAt(c, "digest")
                => /\ c.outcome.value.success = FALSE
                   /\ "status" \notin DOMAIN c.outcome.value
          /\ RejectedAt(c, "importKey")
                => c.outcome.value = [success |-> FALSE, error |-> ImportKeyError.message]
          /\ RejectedAt(c, "sign")
                => c.outcome.value = [success |-> FALSE, error |-> SignError.message]
          /\ RejectedAt(c, "fetch")
                => c.outcome.value = [success |-> FALSE, error |-> FetchError.message]

\* C10 as amended: trigger and triggerBatch always resolve and never reject;
\* the result is {success: true} exactly when the response is ok and its
\* body was read; for a response that is not ok whose body was read it is
\* success=false with the status and the response text (or 'HTTP <status>');
\* for an error thrown during key import, signing, fetch or the reading of
\* the response body it is success=false with the error's message and no
\* status.  A digest rejection is no error of the call: it goes on without
\* a digest.
C10_TriggerResultBodyRead ==
    \A cid \in CallIds :
       LET c == calls[cid] IN
       (c.op \in TriggerOps /\ c.pc = "done") =>
          /\ c.outcome.kind = "return"
          /\ c.outcome.value = [success |-> TRUE]
                <=> (ResolvedAt(c, "text") /\ c.response.ok)
          /\ (ResolvedAt(c, "text") /\ ~c.response.ok)
                => c.outcome.value = HttpFailure(c.response)
          /\ RejectedAt(c, "importKey")
                => c.outcome.value = [success |-> FALSE, error |-> ImportKeyError.message]
          /\ RejectedAt(c, "sign")
                => c.outcome.value = [success |-> FALSE, error |-> SignError.message]
          /\ RejectedAt(c, "fetch")
                => c.outcome.value = [success |-> FALSE, error |-> FetchError.message]
          /\ RejectedAt(c, "text")
                => c.outcome.value = [success |-> FALSE, error |-> BodyError.message]
          /\ RejectedAt(c, "digest") => Invoked(c, "importKey")

C10_Witness ==
    \E cid \in CallIds :
       /\ calls[cid].op \in TriggerOps
       /\ calls[cid].pc = "done"
       /\ ResolvedAt(calls[cid], "text")
       /\ calls[cid].response.status = 500
       /\ calls[cid].outcome.value.error = "HTTP 500"

\* The config the Pusher instance was constructed from.
ConfigOf == lastNewPusher.args[1]

\* Where the requests of a client constructed from config are to go.
DocumentedBaseUrl(config) ==
    IF HasProp(config, "host") /\ HasProp(config, "port") /\ HasProp(config, "scheme")
    THEN Prop(config, "scheme").s \o "://" \o Prop(config, "host").s \o ":"
            \o ToString(Prop(config, "port").n)
    ELSE (IF Prop(config, "useTLS") = Bool(FALSE) THEN "http" ELSE "https")
            \o "://api-"
            \o (IF HasProp(config, "cluster") THEN Prop(config, "cluster").s ELSE "mt1")
            \o ".pusher.com"

\* The url handed to fetch by the call.
FetchUrls(c) == {c.trace[i].url : i \in {j \in 1..Len(c.trace) : c.trace[j].p = "fetch"}}

\* C11: when the constructor is given host, port and scheme every REST
\* request goes to scheme://host:port; otherwise it goes to
\* api-<cluster>.pusher.com, cluster defaulting to mt1, over https unless
\* useTLS is exactly false.
C11_RequestBaseUrl ==
    \A cid \in DOMAIN calls :
       LET c == calls[cid] IN
       c.op \in RestOps =>
          \A url \in FetchUrls(c) :
             url = DocumentedBaseUrl(ConfigOf) \o PathOf(c) \o "?" \o QueryToString(c.query)

\* C11 for configs without host, port and scheme: the part the constructor
\* implements.
C11_PusherComBaseUrl ==
    \A cid \in DOMAIN calls :
       LET c == calls[cid] IN
       (c.op \in RestOps /\ ~HasProp(ConfigOf, "host")) =>
          \A url \in FetchUrls(c) :
             url = DocumentedBaseUrl(ConfigOf) \o PathOf(c) \o "?" \o QueryToString(c.query)

\* The values of the parameter `name` in the query sent / in the signed
\* query string, the latter as name=value strings.
SentValues(c, name) ==
    {c.query[i][2] : i \in {j \in 1..Len(c.query) : c.query[j][1] = name}}

\* The bodies digested and the bodies handed to fetch by the call.
DigestedBodies(c) ==
    {Str(c.trace[i].data) : i \in {j \in 1..Len(c.trace) : c.trace[j].p = "digest"}}
FetchedBodies(c) ==
    {c.trace[i].body : i \in {j \in 1..Len(c.trace) : c.trace[j].p = "fetch"}}

\* C13: every query parameter the request carries, other than
\* auth_signature, is part of the canonical query string that is signed; so
\* are, in particular, info and filter_by_prefix of getChannel and
\* getChannels.
C13_SentParamsAreSigned ==
    \A cid \in DOMAIN calls :
       LET c == calls[cid] IN
       (c.op \in RestOps /\ Invoked(c, "fetch")) =>
          /\ SentParams(c) \subseteq SignedParams(c)
          /\ \A name \in {"info", "filter_by_prefix"} :
                \A v \in SentValues(c, name) : (name \o "=" \o v) \in SignedParams(c)

\* C14: the auth_timestamp sent in the query is the timestamp of the signed
\* string, the one clock value read when the call was made, also when the
\* clock has advanced since; in trigger and triggerBatch the body handed to
\* fetch is the string that was digested.
C14_TimestampAndBodyAgree ==
    \A cid \in DOMAIN calls :
       LET c == calls[cid] IN
       (c.op \in RestOps /\ Invoked(c, "fetch")) =>
          /\ c.timestamp \in 1..now
          /\ SentValues(c, "auth_timestamp") = {ToString(c.timestamp)}
          /\ c.queryParts[2] = "auth_timestamp=" \o ToString(c.timestamp)
          /\ \A i \in 1..Len(c.trace) :
                c.trace[i].p = "sign" =>
                   c.trace[i].data =
                      NoDigestCanonical(c)
                         \o (IF ResolvedAt(c, "digest")
                             THEN "&body_md5=" \o MD5Hex(c.body) ELSE "")
          /\ c.op \in TriggerOps =>
                /\ FetchedBodies(c) = DigestedBodies(c)
                /\ FetchedBodies(c) = {Str(c.body)}

\* The clock advanced while the call was suspended, before its request went out.
C14_Witness ==
    \E cid \in DOMAIN calls :
       /\ calls[cid].op \in TriggerOps
       /\ calls[cid].pc = "fetch"
       /\ calls[cid].timestamp < now

\* The primitives the call invoked, in order.
PrimitivesOf(c) == [i \in 1..Len(c.trace) |-> c.trace[i].p]

IsPrefix(s, t) == Len(s) <= Len(t) /\ \A i \in 1..Len(s) : s[i] = t[i]

\* C15: in trigger and triggerBatch the steps happen in the order digest,
\* key import, sign, HTTP request; the request is issued only after sign
\* resolved, at most once, and not at all when key import or sign rejected.
C15_TriggerStepOrder ==
    \A cid \in DOMAIN calls :
       LET c == calls[cid] IN
       c.op \in TriggerOps =>
          /\ IsPrefix(PrimitivesOf(c), <<"digest", "importKey", "sign", "fetch", "text">>)
          /\ Invoked(c, "fetch") => ResolvedAt(c, "importKey") /\ ResolvedAt(c, "sign")
          /\ Count(c, "fetch") <= 1
          /\ (RejectedAt(c, "importKey") \/ RejectedAt(c, "sign")) =>
                ~Invoked(c, "fetch") /\ c.pc = "done"

C15_Witness ==
    \E cid \in DOMAIN calls :
       /\ calls[cid].op \in TriggerOps
       /\ RejectedAt(calls[cid], "sign")
       /\ calls[cid].pc = "done"

\* The synchronous first part of the call, run on a fresh call of its own
\* with this call's arguments and timestamp.
AloneStart(c) ==
    CASE c.op = "trigger" ->
            trigger(NewCall(c.op, c.args), pusher,
                    c.args[1], c.args[2], c.args[3], c.args[4], c.timestamp)
      [] c.op = "authorizeChannel" ->
            authorizeChannel(NewCall(c.op, c.args), pusher, c.args[1], c.args[2])
      [] c.op = "authenticatePresenceChannel" ->
            authenticatePresenceChannel(NewCall(c.op, c.args), pusher,
                                        c.args[1], c.args[2], c.args[3])
      [] c.op = "PusherAuth.authorizeChannel" ->
            PusherAuth_authorizeChannel(NewCall(c.op, c.args), pusherAuth,
                                        c.args[1], c.args[2])
      [] c.op = "PusherAuth.authenticatePresenceChannel" ->
            PusherAuth_authenticatePresenceChannel(NewCall(c.op, c.args), pusherAuth,
                                                   c.args[1], c.args[2], c.args[3])

\* The string the call signs when it runs alone: a function of its
\* arguments, its timestamp and the outcome of its own digest.
AloneSignData(c) ==
    IF c.op = "trigger"
    THEN NoDigestCanonical(c)
            \o (IF ResolvedAt(c, "digest")
                THEN "&body_md5=" \o MD5Hex(AloneStart(c).body) ELSE "")
    ELSE AloneStart(c).stringToSign

AloneSignature(c) == HMACHex(SelfOf(c).secret, AloneSignData(c))

\* The value an authorization call returns when it runs alone.
AloneAuth(c) ==
    IF c.op \in PresenceOps
    THEN [auth |-> SelfOf(c).key \o ":" \o AloneSignature(c),
          channel_data |-> AloneStart(c).channelData]
    ELSE [auth |-> SelfOf(c).key \o ":" \o AloneSignature(c)]

ConcurrentOps == {"trigger"} \cup PrivateOps \cup PresenceOps

\* Every call signs, and gets as signature or auth token, what it would when
\* run alone; calls with the same inputs have the same signature.
C12_SignaturesAsAlone ==
    /\ \A cid \in DOMAIN calls :
          LET c == calls[cid] IN
          c.op \in ConcurrentOps =>
             /\ \A i \in 1..Len(c.trace) :
                   c.trace[i].p = "sign" =>
                      /\ c.trace[i].key = SelfOf(c).secret
                      /\ c.trace[i].data = AloneSignData(c)
             /\ (c.op = "trigger" /\ ResolvedAt(c, "sign")) =>
                   /\ c.signature = AloneSignature(c)
                   /\ SentValues(c, "auth_signature") = {AloneSignature(c)}
             /\ (c.op # "trigger" /\ ResolvedAt(c, "sign")) =>
                   c.outcome = Return(AloneAuth(c))
    /\ \A i, j \in DOMAIN calls :
          ( /\ calls[i].op \in ConcurrentOps
            /\ calls[i].op = calls[j].op
            /\ calls[i].args = calls[j].args
            /\ calls[i].timestamp = calls[j].timestamp
            /\ ResolvedAt(calls[i], "digest") = ResolvedAt(calls[j], "digest")
            /\ ResolvedAt(calls[i], "sign") /\ ResolvedAt(calls[j], "sign") ) =>
             /\ calls[i].signature = calls[j].signature
             /\ calls[i].op # "trigger" => calls[i].outcome = calls[j].outcome

\* A step runs one call: it changes at most one slot and no instance.
C12_OneCallPerStep ==
    /\ pusher' = pusher
    /\ pusherAuth' = pusherAuth
    /\ \A i, j \in DOMAIN calls :
          i # j => calls'[i] = calls[i] \/ calls'[j] = calls[j]

\* C12: with calls running concurrently on the same clients, in every
\* interleaving of their awaits, each call's signature and auth token are
\* those the call produces when run alone with the same inputs and
\* timestamp, equal inputs give equal signatures, and no step of one call
\* changes another call or an instance.
C12_ConcurrentCallsIndependent ==
    []C12_SignaturesAsAlone /\ [][C12_OneCallPerStep]_vars

\* A later call got its signature while an earlier call with another
\* timestamp is still suspended on sign.
C12_Witness ==
    \E i, j \in DOMAIN calls :
       /\ i < j
       /\ calls[i].op = "trigger" /\ calls[i].pc = "createSignature.sign"
       /\ calls[j].op = "trigger" /\ ResolvedAt(calls[j], "sign")
       /\ calls[i].timestamp # calls[j].timestamp
       /\ calls[j].signature = AloneSignature(calls[j])

\* The PusherAuth method that corresponds to a Pusher method.
Counterpart(op) ==
    CASE op = "authorizeChannel" -> "PusherAuth.authorizeChannel"
      [] op = "authenticatePresenceChannel" -> "PusherAuth.authenticatePresenceChannel"
      [] OTHER -> "none"

\* C16: with both clients on the same key and secret, a call of
\* Pusher.authorizeChannel (authenticatePresenceChannel) and a call of
\* PusherAuth.authorizeChannel (authenticatePresenceChannel) with the same
\* arguments, whose primitives the runtime settled the same way, are at the
\* same point with the same outcome: the same auth (and channel_data), or
\* the same error.
C16_PusherAuthEquivalent ==
    ( /\ pusher # NoInstance
      /\ pusherAuth # NoInstance
      /\ pusher.key = pusherAuth.key
      /\ pusher.secret = pusherAuth.secret ) =>
       \A i, j \in DOMAIN calls :
          ( /\ calls[i].op \in {"authorizeChannel", "authenticatePresenceChannel"}
            /\ calls[j].op = Counterpart(calls[i].op)
            /\ calls[i].args = calls[j].args
            /\ calls[i].settled = calls[j].settled ) =>
             /\ calls[i].pc = calls[j].pc
             /\ calls[i].trace = calls[j].trace
             /\ calls[i].outcome = calls[j].outcome

\* Both classes returned for the same presence arguments.
C16_Witness ==
    \E i, j \in DOMAIN calls :
       /\ calls[i].op = "authenticatePresenceChannel"
       /\ calls[j].op = "PusherAuth.authenticatePresenceChannel"
       /\ calls[i].args = calls[j].args
       /\ calls[i].outcome.kind = "return"
       /\ calls[j].outcome.kind = "return"

====
